---- MODULE Spec2Model ----
(***************************************************************************)
(* duim.py: a disk usage report with bar charts.  The module can be run    *)
(* as a script (main) or imported and its functions called one at a time.  *)
(* Strings are sequences of one-character strings, so that split, join,    *)
(* int() and str() are computed rather than assumed.                       *)
(***************************************************************************)
EXTENDS Integers, Sequences, FiniteSets, TLC

VARIABLES pc, args, isdir, du_status, du_output, dir_dict, target_dir,
          total_size, stdout, exit_code, exc, stages, call

vars == <<pc, args, isdir, du_status, du_output, dir_dict, target_dir,
          total_size, stdout, exit_code, exc, stages, call>>

----------------------------------------------------------------------------
(* Bounds of the model *)

\* longest output of du, in lines (empty ones included)
MaxLines == 3
\* widest bar asked of percent_to_graph in a direct call
MaxWidth == 5
\* largest power of 1024 multiplying a byte count given to human_readable_size
MaxExp == 5

DefaultLength == 20

----------------------------------------------------------------------------
(* Python built-ins used by the program *)

Whitespace == {" ", "\t"}
Digits == <<"0", "1", "2", "3", "4", "5", "6", "7", "8", "9">>

\* c * n
Repeat(c, n) == IF n <= 0 THEN <<>> ELSE [i \in 1..n |-> c]

RECURSIVE SplitAcc(_, _, _)
SplitAcc(rest, cur, acc) ==
    IF rest = <<>>
    THEN IF cur = <<>> THEN acc ELSE Append(acc, cur)
    ELSE IF Head(rest) \in Whitespace
         THEN SplitAcc(Tail(rest), <<>>, IF cur = <<>> THEN acc ELSE Append(acc, cur))
         ELSE SplitAcc(Tail(rest), Append(cur, Head(rest)), acc)

\* str.split(): the maximal runs of non-whitespace characters
Split(line) == SplitAcc(line, <<>>, <<>>)

RECURSIVE Join(_)
\* ' '.join(tokens)
Join(tokens) ==
    IF tokens = <<>> THEN <<>>
    ELSE IF Len(tokens) = 1 THEN Head(tokens)
    ELSE Head(tokens) \o <<" ">> \o Join(Tail(tokens))

DigitVal(c) == CHOOSE v \in 0..9 : Digits[v + 1] = c
IsDigit(c) == \E v \in 0..9 : Digits[v + 1] = c

\* the token without its sign
Unsigned(tok) == IF tok # <<>> /\ Head(tok) \in {"+", "-"} THEN Tail(tok) ELSE tok

\* int(tok) accepts an optional sign, then digits, single underscores between digits
IntOk(tok) ==
    LET body == Unsigned(tok) IN
    /\ body # <<>>
    /\ \A i \in 1..Len(body) : IsDigit(body[i]) \/ body[i] = "_"
    /\ IsDigit(body[1]) /\ IsDigit(body[Len(body)])
    /\ \A i \in 1..(Len(body) - 1) : ~(body[i] = "_" /\ body[i + 1] = "_")

RECURSIVE DigitsVal(_, _)
DigitsVal(body, acc) ==
    IF body = <<>> THEN acc
    ELSE IF Head(body) = "_" THEN DigitsVal(Tail(body), acc)
    ELSE DigitsVal(Tail(body), 10 * acc + DigitVal(Head(body)))

\* int(tok), for a token int() accepts
IntVal(tok) ==
    IF Head(tok) = "-" THEN 0 - DigitsVal(Unsigned(tok), 0) ELSE DigitsVal(Unsigned(tok), 0)

RECURSIVE NatStr(_)
NatStr(n) == IF n < 10 THEN <<Digits[n + 1]>> ELSE Append(NatStr(n \div 10), Digits[(n % 10) + 1])

\* str(n)
Str(n) == IF n < 0 THEN <<"-">> \o NatStr(0 - n) ELSE NatStr(n)

\* round(n / d) and the rounding of the format specs, d > 0: to nearest, ties to even
RoundHalfEven(n, d) ==
    LET q == n \div d
        r == n - q * d
    IN  IF 2 * r < d THEN q
        ELSE IF 2 * r > d THEN q + 1
        ELSE IF q % 2 = 0 THEN q ELSE q + 1

\* f"{s:8}": left-justified in at least w characters
LJust(s, w) == s \o Repeat(" ", w - Len(s))
\* right-justified in at least w characters
RJust(s, w) == Repeat(" ", w - Len(s)) \o s

----------------------------------------------------------------------------
(* Values *)

\* a float that is an exact quotient of integers: n / d, d > 0; negzero: it is -0.0
Rat(n, d) ==
    IF d < 0 THEN [n |-> 0 - n, d |-> 0 - d, negzero |-> FALSE]
    ELSE [n |-> n, d |-> d, negzero |-> FALSE]

\* (size / total_size) * 100, total_size # 0; 0 / total_size is -0.0 when total_size < 0
PercentOf(size, total) == [Rat(size * 100, total) EXCEPT !.negzero = (size = 0 /\ total < 0)]

\* f"{percent:3.0f}"
Format3_0f(percent) ==
    RJust((IF percent.negzero THEN <<"-">> ELSE <<>>)
          \o Str(RoundHalfEven(percent.n, percent.d)), 3)

\* a byte count or float held exactly as m * 1024^e
Big(m, e) == [m |-> m, e |-> e]

RECURSIVE Pow1024(_)
Pow1024(k) == IF k <= 0 THEN 1 ELSE 1024 * Pow1024(k - 1)

RECURSIVE GeKilo(_, _)
\* m * 1024^e >= 1024
GeKilo(m, e) ==
    IF e >= 1 THEN m >= 1
    ELSE IF e = 0 THEN m >= 1024
    ELSE GeKilo(m \div 1024, e + 1)

\* f"{size:.1f}" of the float m * 1024^e
Format1f(x) ==
    LET a     == IF x.m < 0 THEN 0 - x.m ELSE x.m
        d     == Pow1024(0 - x.e)
        t     == RoundHalfEven(10 * (a % d), d)
        whole == IF a = 0 THEN 0
                 ELSE IF x.e >= 0 THEN a * Pow1024(x.e)
                 ELSE (a \div d) + (t \div 10)
        tenth == IF a = 0 \/ x.e >= 0 THEN 0 ELSE t % 10
    IN  (IF x.m < 0 THEN <<"-">> ELSE <<>>) \o NatStr(whole) \o <<".">> \o NatStr(tenth)

\* one printed line
Line(kind, percent, bar, size_str, path) ==
    [kind |-> kind, percent |-> percent, bar |-> bar, size_str |-> size_str, path |-> path]

----------------------------------------------------------------------------
(* The functions of duim.py *)

\* mutant: int() in place of round()
percent_to_graph_trunc(percent, total_chars) ==
    IF ~(0 <= percent.n /\ percent.n <= 100 * percent.d)
    THEN [ok |-> FALSE, graph |-> <<>>]
    ELSE LET filled_chars == (percent.n * total_chars) \div (100 * percent.d)
         IN  [ok |-> TRUE,
              graph |-> Repeat("=", filled_chars) \o Repeat(" ", total_chars - filled_chars)]

\* mutant: only the upper end of the range is checked
percent_to_graph_no_lower(percent, total_chars) ==
    IF ~(percent.n <= 100 * percent.d)
    THEN [ok |-> FALSE, graph |-> <<>>]
    ELSE LET filled_chars == RoundHalfEven(percent.n * total_chars, 100 * percent.d)
         IN  [ok |-> TRUE,
              graph |-> Repeat("=", filled_chars) \o Repeat(" ", total_chars - filled_chars)]

percent_to_graph(percent, total_chars) ==
    IF ~(0 <= percent.n /\ percent.n <= 100 * percent.d)
    THEN [ok |-> FALSE, graph |-> <<>>]
    ELSE LET filled_chars == RoundHalfEven(percent.n * total_chars, 100 * percent.d)
         IN  [ok |-> TRUE,
              graph |-> Repeat("=", filled_chars) \o Repeat(" ", total_chars - filled_chars)]

\* split('\n') of du's standard output is `raw`; the empty strings are dropped
call_du_sub(raw) == SelectSeq(raw, LAMBDA line : line # <<>>)

\* mutant: a key already present keeps its value
DictSet_first_wins(d, path, size) ==
    IF \E i \in 1..Len(d) : d[i].path = path
    THEN d
    ELSE Append(d, [path |-> path, size |-> size])

\* dir_dict[path] = size: a key keeps the place of its first insertion
DictSet(d, path, size) ==
    IF \E i \in 1..Len(d) : d[i].path = path
    THEN [i \in 1..Len(d) |-> IF d[i].path = path THEN [path |-> path, size |-> size] ELSE d[i]]
    ELSE Append(d, [path |-> path, size |-> size])

DictHas(d, path) == \E i \in 1..Len(d) : d[i].path = path
DictGet(d, path) == d[CHOOSE i \in 1..Len(d) : d[i].path = path].size

RECURSIVE CreateLoop(_, _)
CreateLoop(alist, d) ==
    IF alist = <<>> THEN [ok |-> TRUE, dict |-> d]
    ELSE LET parts == Split(Head(alist)) IN
         IF Len(parts) < 2 THEN CreateLoop(Tail(alist), d)
         ELSE IF ~IntOk(parts[1]) THEN [ok |-> FALSE, dict |-> <<>>]
         ELSE CreateLoop(Tail(alist), DictSet(d, Join(Tail(parts)), IntVal(parts[1])))

\* ok = FALSE: int() raised ValueError
create_dir_dict(alist) == CreateLoop(alist, <<>>)

units == <<"B", "K", "M", "G", "T", "P">>

\* m * 1024^e > 1024
GtKilo(m, e) ==
    IF e >= 2 THEN m >= 1
    ELSE IF 1 - e > 3 THEN FALSE
    ELSE m > Pow1024(1 - e)

RECURSIVE ScaleLoop_gt(_, _)
\* mutant: size > 1024 in place of size >= 1024
ScaleLoop_gt(size, index) ==
    IF GtKilo(size.m, size.e) /\ index < Len(units) - 1
    THEN ScaleLoop_gt(Big(size.m, size.e - 1), index + 1)
    ELSE [size |-> size, index |-> index]

RECURSIVE ScaleLoop(_, _)
ScaleLoop(size, index) ==
    IF GeKilo(size.m, size.e) /\ index < Len(units) - 1
    THEN ScaleLoop(Big(size.m, size.e - 1), index + 1)
    ELSE [size |-> size, index |-> index]

human_readable_size(size_bytes) ==
    LET r == ScaleLoop(size_bytes, 0)
    IN  Format1f(r.size) \o <<" ", units[r.index + 1]>>

RECURSIVE InsertDesc_unstable(_, _)
\* mutant: an entry goes before the entries of its own size
InsertDesc_unstable(acc, x) ==
    IF acc = <<>> THEN <<x>>
    ELSE IF Head(acc).size > x.size THEN <<Head(acc)>> \o InsertDesc_unstable(Tail(acc), x)
    ELSE <<x>> \o acc

RECURSIVE InsertDesc(_, _)
InsertDesc(acc, x) ==
    IF acc = <<>> THEN <<x>>
    ELSE IF Head(acc).size >= x.size THEN <<Head(acc)>> \o InsertDesc(Tail(acc), x)
    ELSE <<x>> \o acc

RECURSIVE SortAcc(_, _)
SortAcc(items, acc) ==
    IF items = <<>> THEN acc ELSE SortAcc(Tail(items), InsertDesc(acc, Head(items)))

\* sorted(dir_dict.items(), key=lambda x: x[1], reverse=True): stable
SortedDesc(d) == SortAcc(d, <<>>)

SizeStr(size, human_readable) ==
    IF human_readable THEN human_readable_size(Big(size, 0)) ELSE Str(size)

RECURSIVE PrintLoop(_, _, _, _, _)
PrintLoop(items, total, target, human_readable, bar_length) ==
    IF items = <<>> THEN [lines |-> <<>>, exc |-> "none"]
    ELSE LET dir_path == Head(items).path
             size     == Head(items).size
         IN
         IF dir_path = target
         THEN PrintLoop(Tail(items), total, target, human_readable, bar_length)
         ELSE IF total = 0 THEN [lines |-> <<>>, exc |-> "ZeroDivisionError"]
         ELSE LET percent == PercentOf(size, total)
                  bar     == percent_to_graph(percent, bar_length)
              IN
              IF ~bar.ok THEN [lines |-> <<>>, exc |-> "ValueError"]
              ELSE LET rest == PrintLoop(Tail(items), total, target, human_readable, bar_length)
                       line == Line("entry",
                                    Format3_0f(percent),
                                    bar.graph,
                                    LJust(SizeStr(size, human_readable), 8),
                                    dir_path)
                   IN  [lines |-> <<line>> \o rest.lines, exc |-> rest.exc]

\* the lines printed, and the exception that ended the function, if any
print_directory_info(d, total, target, human_readable, bar_length) ==
    LET body == PrintLoop(SortedDesc(d), total, target, human_readable, bar_length)
    IN  IF body.exc # "none" THEN body
        ELSE [lines |-> Append(body.lines,
                               Line("total", <<>>, <<>>, SizeStr(total, human_readable), target)),
              exc |-> "none"]

----------------------------------------------------------------------------
(* Inputs *)

\* the directories named on the command line
TargetSet == {<<"a">>, <<"a", "/">>}

\* the bar lengths given with -l, and the default
LengthSet == {4, DefaultLength}

\* the lines du may write; the empty string stands for a blank line of its output
LineSet ==
    {<<"1", "0", " ", "a">>,   \* '10 a'
     <<"0", " ", "a">>,   \* '0 a'
     <<"5", " ", "b">>,   \* '5 b'
     <<"5", " ", "c">>,   \* '5 c'
     <<"2", "0", " ", "b">>,   \* '20 b'
     <<"-", "5", " ", "c">>,   \* '-5 c'
     <<"x", " ", "b">>,   \* 'x b'
     <<"7">>,   \* '7'
     <<"3", " ", "b", " ", " ", "c">>,   \* '3 b  c'
     <<>>}

RECURSIVE SeqsUpTo(_, _)
\* the sequences over S of length at most n
SeqsUpTo(S, n) ==
    IF n = 0 THEN {<<>>}
    ELSE LET shorter == SeqsUpTo(S, n - 1)
         IN  shorter \cup {Append(q, x) : q \in {r \in shorter : Len(r) = n - 1}, x \in S}

RawOutputs == SeqsUpTo(LineSet, MaxLines)

\* percentages given to percent_to_graph in a direct call: -1 .. 101, and halves
PercentSet ==
    {Rat(k, 1) : k \in (0 - 1)..101}
    \cup {Rat(25, 2), Rat(75, 2), Rat(201, 2), [Rat(0, 1) EXCEPT !.negzero = TRUE]}
WidthSet == ((0 - 1)..MaxWidth) \cup {DefaultLength}

\* byte counts given to human_readable_size in a direct call: m * 1024^e
MantissaSet == {0, 1, 512, 1023, 1024, 1075, 1280, 1792, 10816, 1048575}
SizeSet == {Big(m, e) : m \in MantissaSet, e \in 0..MaxExp}

NoCall == [fn |-> "none", percent |-> Rat(0, 1), width |-> 0, size |-> Big(0, 0),
           ok |-> TRUE, result |-> <<>>]

----------------------------------------------------------------------------
(* The state machine *)

Init ==
    /\ pc = "loaded"
    /\ args = [target |-> <<>>, length |-> DefaultLength, human_readable |-> FALSE]
    /\ isdir = FALSE
    /\ du_status = "none"
    /\ du_output = <<>>
    /\ dir_dict = <<>>
    /\ target_dir = <<>>
    /\ total_size = 0
    /\ stdout = <<>>
    /\ exit_code = 0 - 1
    /\ exc = "none"
    /\ stages = <<>>
    /\ call = NoCall

\* an uncaught exception ends the process with a traceback and exit code 1
Raise(e) ==
    /\ exc' = e
    /\ exit_code' = 1
    /\ pc' = "exited"

\* main: args = parse_command_args()
main_parse_command_args ==
    /\ pc = "loaded"
    /\ \E t \in TargetSet, l \in LengthSet, h \in BOOLEAN :
         args' = [target |-> t, length |-> l, human_readable |-> h]
    /\ pc' = "isdir"
    /\ stages' = Append(stages, "parse_command_args")
    /\ UNCHANGED <<isdir, du_status, du_output, dir_dict, target_dir, total_size,
                   stdout, exit_code, exc, call>>

\* mutant: the diagnostic is printed and the run goes on
main_isdir_no_exit ==
    /\ pc = "isdir"
    /\ \E b \in BOOLEAN :
         /\ isdir' = b
         /\ stdout' = IF b THEN stdout
                      ELSE Append(stdout, Line("error", <<>>, <<>>, <<>>, args.target))
    /\ pc' = "call_du_sub"
    /\ stages' = Append(stages, "isdir")
    /\ UNCHANGED <<args, du_status, du_output, dir_dict, target_dir, total_size,
                   exit_code, exc, call>>

\* main: if not os.path.isdir(args.target): print(...); sys.exit(1)
main_isdir ==
    /\ pc = "isdir"
    /\ \E b \in BOOLEAN :
         /\ isdir' = b
         /\ IF b
            THEN /\ pc' = "call_du_sub"
                 /\ UNCHANGED <<stdout, exit_code>>
            ELSE /\ stdout' = Append(stdout, Line("error", <<>>, <<>>, <<>>, args.target))
                 /\ exit_code' = 1
                 /\ pc' = "exited"
    /\ stages' = Append(stages, "isdir")
    /\ UNCHANGED <<args, du_status, du_output, dir_dict, target_dir, total_size, exc, call>>

\* main: du_output = call_du_sub(args.target)
main_call_du_sub ==
    /\ pc = "call_du_sub"
    /\ stages' = Append(stages, "call_du_sub")
    /\ \/ \* du cannot be started: Popen raises
          /\ du_status' = "unreachable"
          /\ Raise("FileNotFoundError")
          /\ UNCHANGED du_output
       \/ \* du ran; its exit status is not looked at
          /\ \E st \in {"zero", "nonzero"}, raw \in RawOutputs :
               /\ du_status' = st
               /\ du_output' = call_du_sub(raw)
          /\ pc' = "create_dir_dict"
          /\ UNCHANGED <<exc, exit_code>>
    /\ UNCHANGED <<args, isdir, dir_dict, target_dir, total_size, stdout, call>>

\* main: dir_dict = create_dir_dict(du_output)
main_create_dir_dict ==
    /\ pc = "create_dir_dict"
    /\ stages' = Append(stages, "create_dir_dict")
    /\ LET r == create_dir_dict(du_output) IN
       IF r.ok
       THEN /\ dir_dict' = r.dict
            /\ pc' = "target_dir"
            /\ UNCHANGED <<exc, exit_code>>
       ELSE /\ Raise("ValueError")
            /\ UNCHANGED dir_dict
    /\ UNCHANGED <<args, isdir, du_status, du_output, target_dir, total_size, stdout, call>>

\* mutant: du_output[0] in place of du_output[-1]
TotalKey_first_line(d, target, output) ==
    IF DictHas(d, target) THEN target
    ELSE LET parts == Split(output[1]) IN Join(Tail(parts))

\* main: target_dir, when du_output[-1] exists or is not needed
TotalKey(d, target, output) ==
    IF DictHas(d, target) THEN target
    ELSE LET parts == Split(output[Len(output)]) IN Join(Tail(parts))

\* main: the key of the total, and total_size = dir_dict[target_dir]
main_target_dir ==
    /\ pc = "target_dir"
    /\ stages' = Append(stages, "target_dir")
    /\ IF ~DictHas(dir_dict, args.target) /\ du_output = <<>>
       THEN \* du_output[-1]
            /\ Raise("IndexError")
            /\ UNCHANGED <<target_dir, total_size>>
       ELSE LET key == TotalKey(dir_dict, args.target, du_output)
            IN  /\ target_dir' = key
                /\ IF DictHas(dir_dict, key)
                   THEN /\ total_size' = DictGet(dir_dict, key)
                        /\ pc' = "print_directory_info"
                        /\ UNCHANGED <<exc, exit_code>>
                   ELSE /\ Raise("KeyError")
                        /\ UNCHANGED total_size
    /\ UNCHANGED <<args, isdir, du_status, du_output, dir_dict, stdout, call>>

\* main: print_directory_info(...), then the script ends
main_print_directory_info ==
    /\ pc = "print_directory_info"
    /\ stages' = Append(stages, "print_directory_info")
    /\ LET r == print_directory_info(dir_dict, total_size, target_dir,
                                     args.human_readable, args.length)
       IN  /\ stdout' = stdout \o r.lines
           /\ IF r.exc = "none"
              THEN /\ exit_code' = 0
                   /\ pc' = "exited"
                   /\ UNCHANGED exc
              ELSE Raise(r.exc)
    /\ UNCHANGED <<args, isdir, du_status, du_output, dir_dict, target_dir, total_size, call>>

\* the module imported, and percent_to_graph called
call_percent_to_graph ==
    /\ pc = "loaded"
    /\ \E p \in PercentSet, w \in WidthSet :
         LET r == percent_to_graph(p, w) IN
         call' = [NoCall EXCEPT !.fn = "percent_to_graph", !.percent = p, !.width = w,
                                !.ok = r.ok, !.result = r.graph]
    /\ pc' = "returned"
    /\ UNCHANGED <<args, isdir, du_status, du_output, dir_dict, target_dir, total_size,
                   stdout, exit_code, exc, stages>>

\* the module imported, and human_readable_size called
call_human_readable_size ==
    /\ pc = "loaded"
    /\ \E b \in SizeSet :
         call' = [NoCall EXCEPT !.fn = "human_readable_size", !.size = b,
                                !.result = human_readable_size(b)]
    /\ pc' = "returned"
    /\ UNCHANGED <<args, isdir, du_status, du_output, dir_dict, target_dir, total_size,
                   stdout, exit_code, exc, stages>>

Next ==
    \/ main_parse_command_args
    \/ main_isdir
    \/ main_call_du_sub
    \/ main_create_dir_dict
    \/ main_target_dir
    \/ main_print_directory_info
    \/ call_percent_to_graph
    \/ call_human_readable_size

Spec == Init /\ [][Next]_vars

----------------------------------------------------------------------------
(* Properties *)

Reached(stage) == \E i \in 1..Len(stages) : stages[i] = stage

\* the per-entry lines of the report
EntryLines == SelectSeq(stdout, LAMBDA l : l.kind = "entry")
TotalPrinted == stdout # <<>> /\ stdout[Len(stdout)].kind = "total"

\* the place of a key in dir_dict
IndexOf(path) == CHOOSE i \in 1..Len(dir_dict) : dir_dict[i].path = path

\* the entries of dir_dict other than the total, by their place
Children == {i \in 1..Len(dir_dict) : dir_dict[i].path # target_dir}

\* entry i is listed before entry j: larger first, equal sizes in insertion order
Before(i, j) ==
    \/ dir_dict[i].size > dir_dict[j].size
    \/ dir_dict[i].size = dir_dict[j].size /\ i < j

\* size / total_size * 100 is defined and within [0, 100]
Renderable(size) ==
    /\ total_size # 0
    /\ IF total_size > 0 THEN 0 <= size /\ size <= total_size
       ELSE total_size <= size /\ size <= 0

\* the places of the entries printed, in the order printed
Printed == [j \in 1..Len(EntryLines) |-> IndexOf(EntryLines[j].path)]
PrintedSet == {Printed[j] : j \in 1..Len(EntryLines)}

\* the printed entries are entries other than the total, each once, in report order
PrintedInOrder ==
    /\ \A j \in 1..Len(EntryLines) :
         /\ DictHas(dir_dict, EntryLines[j].path)
         /\ EntryLines[j].path # target_dir
    /\ \A j, k \in 1..Len(EntryLines) : j < k => Before(Printed[j], Printed[k])

\* C1 (as claimed): with a total of size 0 the build raises no error, prints every
\* other entry with percentage 0 and an empty bar, and ends with the Total line.
C1_ZeroTotalNeverCrashes ==
    (Reached("print_directory_info") /\ total_size = 0) =>
        /\ exc = "none"
        /\ exit_code = 0
        /\ TotalPrinted
        /\ Len(EntryLines) = Cardinality(Children)
        /\ \A j \in 1..Len(EntryLines) :
             /\ EntryLines[j].percent = <<" ", " ", "0">>
             /\ \A i \in 1..Len(EntryLines[j].bar) : EntryLines[j].bar[i] = " "

\* C2 (as claimed): when du exits non-zero or cannot be started the run is fatal:
\* no report line is printed from its output and the run does not end with exit
\* code 0 (it ends with 1).
C2_ProbeFailureIsFatal ==
    du_status \in {"nonzero", "unreachable"} =>
        /\ stdout = <<>>
        /\ exit_code # 0
        /\ pc = "exited" => exit_code = 1

LookupError == {"KeyError", "IndexError"}

\* the path of the last line of du's output
LastLinePath == Join(Tail(Split(du_output[Len(du_output)])))

\* C3: the key of the total is the target when the snapshot has it, otherwise the
\* path of the last output line; when the resulting key is not in the snapshot
\* (no output at all included) the run ends with a lookup error, exit code 1,
\* and nothing printed.
C3_TotalKeyResolution ==
    Reached("target_dir") =>
        LET has    == DictHas(dir_dict, args.target)
            absent == ~has /\ (du_output = <<>> \/ ~DictHas(dir_dict, LastLinePath))
        IN  /\ has => target_dir = args.target
            /\ (~has /\ du_output # <<>>) => target_dir = LastLinePath
            /\ absent => /\ exc \in LookupError
                         /\ exit_code = 1
                         /\ pc = "exited"
                         /\ stdout = <<>>
                         /\ ~Reached("print_directory_info")
            /\ ~absent => /\ total_size = DictGet(dir_dict, target_dir)
                          /\ Reached("print_directory_info") \/ pc = "print_directory_info"

\* the fallback to the last line was taken, recovered no path (one token), and failed
C3_Witness ==
    /\ Reached("target_dir")
    /\ dir_dict # <<>>
    /\ ~DictHas(dir_dict, args.target)
    /\ Len(Split(du_output[Len(du_output)])) = 1
    /\ exc = "KeyError"

\* a size token the claim takes to be valid: a non-negative integer
NonNegativeInt(tok) == IntOk(tok) /\ IntVal(tok) >= 0

\* C4 (as claimed): a line of two or more tokens whose first is not a non-negative
\* integer makes create_dir_dict fail: no snapshot, nothing printed, the run aborts.
C4_BadSizeTokenIsFatal ==
    (/\ Reached("create_dir_dict")
     /\ \E i \in 1..Len(du_output) :
          LET parts == Split(du_output[i]) IN
          Len(parts) >= 2 /\ ~NonNegativeInt(parts[1])) =>
        /\ exc = "ValueError"
        /\ stages[Len(stages)] = "create_dir_dict"
        /\ pc = "exited"
        /\ exit_code = 1
        /\ stdout = <<>>

C6_AllEntriesThenTotal ==
    (Reached("print_directory_info") /\ total_size # 0) =>
        /\ PrintedInOrder
        /\ PrintedSet = Children
        /\ TotalPrinted
        /\ Len(stdout) = Len(EntryLines) + 1

\* C6 (amended): the lines printed are the entries other than the total, by size
\* descending, equal sizes in insertion order, up to the first entry whose
\* percentage cannot be rendered (total 0, or outside [0, 100]); the Total line
\* follows, as the last line, exactly when no entry stopped the listing.
C6_SortedPrefixThenTotal ==
    Reached("print_directory_info") =>
        LET missing == Children \ PrintedSet IN
        /\ PrintedInOrder
        /\ PrintedSet \subseteq Children
        /\ \A i \in PrintedSet : Renderable(dir_dict[i].size)
        /\ \A i \in PrintedSet, m \in missing : Before(i, m)
        /\ \A m \in missing :
             (\A o \in missing \ {m} : Before(m, o)) => ~Renderable(dir_dict[m].size)
        /\ (missing = {}) <=> TotalPrinted
        /\ (missing = {}) <=> (exc = "none")
        /\ Len(stdout) = Len(EntryLines) + (IF missing = {} THEN 1 ELSE 0)
        /\ TotalPrinted => stdout[Len(stdout)].path = target_dir

\* a full report whose two entries have the same size
C6_Witness ==
    /\ Reached("print_directory_info")
    /\ exc = "none"
    /\ Len(EntryLines) = 2
    /\ dir_dict[Printed[1]].size = dir_dict[Printed[2]].size

\* |x|
Abs(x) == IF x < 0 THEN 0 - x ELSE x

\* k is round(n / d): an integer nearest to n / d, the even one of two
NearestEven(k, n, d) ==
    /\ 2 * Abs(k * d - n) <= d
    /\ 2 * Abs(k * d - n) = d => k % 2 = 0

InRange(percent) == 0 <= percent.n /\ percent.n <= 100 * percent.d

\* C7: for percent in [0, 100] and width >= 0 the bar has exactly width characters,
\* some number k <= width of '=' followed by spaces only, k = round(percent * width / 100).
C7_BarShape ==
    (call.fn = "percent_to_graph" /\ InRange(call.percent) /\ call.width >= 0) =>
        /\ call.ok
        /\ Len(call.result) = call.width
        /\ \E k \in 0..call.width :
             /\ \A i \in 1..call.width : call.result[i] = IF i <= k THEN "=" ELSE " "
             /\ NearestEven(k, call.percent.n * call.width, 100 * call.percent.d)

\* percent 50 at width 5: 2.5 rounds to 2
C7_Witness ==
    /\ call.fn = "percent_to_graph"
    /\ call.percent = Rat(50, 1)
    /\ call.width = 5
    /\ call.result = <<"=", "=", " ", " ", " ">>

\* C8: a percentage below 0 or above 100 makes percent_to_graph raise and return no
\* bar, whatever the width; and a report in which an entry's percentage is outside
\* [0, 100] aborts with that error, printing neither that entry nor the Total line.
C8_RangeError ==
    /\ (call.fn = "percent_to_graph" /\ ~InRange(call.percent)) =>
         ~call.ok /\ call.result = <<>>
    /\ (Reached("print_directory_info") /\ total_size # 0) =>
         /\ \A j \in 1..Len(EntryLines) : Renderable(dir_dict[Printed[j]].size)
         /\ (\E i \in Children : ~Renderable(dir_dict[i].size)) =>
              /\ exc = "ValueError"
              /\ exit_code = 1
              /\ ~TotalPrinted

\* a report that printed an entry and then stopped at one below 0 %
C8_Witness ==
    /\ Reached("print_directory_info")
    /\ exc = "ValueError"
    /\ Len(EntryLines) = 1
    /\ \E i \in Children : dir_dict[i].size < 0 /\ total_size > 0

\* every line of two or more tokens starts with a token int() accepts
WellFormed(lines) ==
    \A i \in 1..Len(lines) :
        LET parts == Split(lines[i]) IN Len(parts) >= 2 => IntOk(parts[1])

\* the lines that name a path
Naming(path) ==
    {i \in 1..Len(du_output) :
        LET parts == Split(du_output[i]) IN Len(parts) >= 2 /\ Join(Tail(parts)) = path}

Max(S) == CHOOSE x \in S : \A y \in S : y <= x

\* C9: for well-formed lines create_dir_dict returns the mapping whose keys are the
\* paths (the tokens after the first, joined by single spaces) of the lines of two
\* or more tokens, each with the integer of the first token of the last line naming it.
C9_SnapshotOfLines ==
    (Reached("create_dir_dict") /\ WellFormed(du_output)) =>
        /\ ~(exc = "ValueError" /\ stages[Len(stages)] = "create_dir_dict")
        /\ \A i, j \in 1..Len(dir_dict) : dir_dict[i].path = dir_dict[j].path => i = j
        /\ \A i \in 1..Len(dir_dict) : Naming(dir_dict[i].path) # {}
        /\ \A i \in 1..Len(du_output) :
             LET parts == Split(du_output[i]) IN
             Len(parts) >= 2 =>
                 LET path == Join(Tail(parts)) IN
                 /\ DictHas(dir_dict, path)
                 /\ DictGet(dir_dict, path) = IntVal(Split(du_output[Max(Naming(path))])[1])

\* a path named twice with different sizes and a path rejoined from two tokens
C9_Witness ==
    /\ Reached("create_dir_dict")
    /\ du_output = <<<<"5", " ", "b">>, <<"2", "0", " ", "b">>, <<"3", " ", "b", " ", " ", "c">>>>
    /\ dir_dict = <<[path |-> <<"b">>, size |-> 20], [path |-> <<"b", " ", "c">>, size |-> 3]>>

\* m * 1024^j < 1024, for 0 <= m < 1024^3
Below1024(m, j) ==
    IF j >= 1 THEN m = 0
    ELSE IF 1 - j >= 3 THEN TRUE
    ELSE m < Pow1024(1 - j)

\* the number of divisions the claim names
Divisions(b) ==
    CHOOSE k \in 0..5 :
        /\ Below1024(b.m, b.e - k) \/ k = 5
        /\ \A h \in 0..(k - 1) : ~Below1024(b.m, b.e - h)

\* C10: human_readable_size divides by 1024 the least number k of times, at most 5,
\* that brings the value under 1024, and returns the quotient with exactly one
\* fractional digit, a space and the k-th unit of B, K, M, G, T, P.
C10_HumanReadable ==
    call.fn = "human_readable_size" =>
        LET b == call.size
            r == call.result
            n == Len(r)
            k == Divisions(b)
            whole == SubSeq(r, 1, n - 4)
        IN  /\ n >= 5
            /\ r[n] = <<"B", "K", "M", "G", "T", "P">>[k + 1]
            /\ r[n - 1] = " "
            /\ IsDigit(r[n - 2])
            /\ r[n - 3] = "."
            /\ \A i \in 1..Len(whole) : IsDigit(whole[i])
            /\ IF b.e - k >= 0 \/ b.m = 0
               THEN /\ DigitVal(r[n - 2]) = 0
                    /\ DigitsVal(whole, 0) = (IF b.m = 0 THEN 0 ELSE b.m * Pow1024(b.e - k))
               ELSE NearestEven(10 * DigitsVal(whole, 0) + DigitVal(r[n - 2]),
                                10 * b.m, Pow1024(k - b.e))
            /\ b = Big(0, 0) => r = <<"0", ".", "0", " ", "B">>
            /\ b = Big(1024, 0) => r = <<"1", ".", "0", " ", "K">>
            /\ b = Big(10816, 1) => r = <<"1", "0", ".", "6", " ", "M">>

\* 11075584 = 10816 * 1024 bytes give "10.6 M"
C10_Witness ==
    /\ call.fn = "human_readable_size"
    /\ call.size = Big(10816, 1)
    /\ call.result = <<"1", "0", ".", "6", " ", "M">>

====
